---- MODULE Spec2Model ----
(***************************************************************************)
(* django_remote_forms.forms.RemoteForm: the constructor (__init__), which *)
(* resolves the exclude / include / readonly / ordering directives and the *)
(* fieldsets against the form's fields, and as_dict(), which exports the   *)
(* form, its fields and its crispy-forms layout as one mapping.            *)
(***************************************************************************)
EXTENDS Integers, Sequences, FiniteSets, TLC

VARIABLES form, kwargs, all_fields, excluded_fields, included_fields,
          readonly_fields, ordered_fields, fields, fieldsets, log, pc,
          form_dict, raised

vars == <<form, kwargs, all_fields, excluded_fields, included_fields,
          readonly_fields, ordered_fields, fields, fieldsets, log, pc,
          form_dict, raised>>

(***************************************************************************)
(* Bounds and input domains                                                *)
(***************************************************************************)

\* longest `ordering` sequence a caller passes
MaxOrdering == 2

\* most entries of a `fieldsets` declaration a caller passes
MaxFieldsets == 1

\* deepest nesting of containers in a layout tree
MaxDepth == 2

\* most children of one layout container
MaxKids == 2

\* field names a caller may mention; "ghost" is never a field of the form
Names == {"name", "age", "ghost"}

\* a key a Python dict does not hold
Absent == "<absent>"

\* Python's None
None == "None"

RECURSIVE SeqsUpTo(_, _)
SeqsUpTo(S, n) ==
    IF n = 0 THEN {<<>>}
    ELSE LET shorter == SeqsUpTo(S, n - 1)
         IN  shorter \cup {Append(s, x) : s \in shorter, x \in S}

Range(s) == {s[i] : i \in 1..Len(s)}

EmptyMap == [n \in {} |-> None]

(***************************************************************************)
(* RemoteForm.__init__, one definition per block of the constructor. Each  *)
(* takes the object as built so far (a record of its attributes, with the  *)
(* logger's sink as `log`) and returns it as the block leaves it.          *)
(***************************************************************************)

\* a warning handed to logger.warning: which message, and the name set it formats
Warning(msg, names) == [msg |-> msg, names |-> names]

Warn(self, msg, names) == [self EXCEPT !.log = Append(@, Warning(msg, names))]

\* the attributes read from the form and the keyword arguments
ReadArguments(frm, kw) ==
    [all_fields      |-> Range(frm.keyOrder),
     excluded_fields |-> kw.exclude,
     included_fields |-> kw.include,
     readonly_fields |-> kw.readonly,
     ordered_fields  |-> kw.ordering,
     fieldsets       |-> <<>>,
     fields          |-> <<>>,
     log             |-> <<>>]

\* a ModelForm takes the directives the caller left empty from its Meta
MetaDefaults(self, frm) ==
    IF frm.isModelForm
    THEN LET inc == IF self.included_fields # {} THEN self.included_fields
                    ELSE frm.meta_fields
             exc == IF self.excluded_fields # {} THEN self.excluded_fields
                    ELSE frm.meta_exclude
         IN  [self EXCEPT !.included_fields = inc, !.excluded_fields = exc]
    ELSE self

ReadFieldsets(self, kw) == [self EXCEPT !.fieldsets = kw.fieldsets]

CheckExcluded(self) ==
    IF self.excluded_fields # {} /\ ~(self.excluded_fields \subseteq self.all_fields)
    THEN [Warn(self, "excluded_not_present", self.excluded_fields \ self.all_fields)
             EXCEPT !.excluded_fields = {}]
    ELSE self

CheckIncluded(self) ==
    IF self.included_fields # {} /\ ~(self.included_fields \subseteq self.all_fields)
    THEN [Warn(self, "included_not_present", self.included_fields \ self.all_fields)
             EXCEPT !.included_fields = {}]
    ELSE self

\* the readonly check as it would be if it warned and kept the directive
CheckReadonlyWarnOnly(self) ==
    IF self.readonly_fields # {} /\ ~(self.readonly_fields \subseteq self.all_fields)
    THEN Warn(self, "readonly_not_present", self.readonly_fields \ self.all_fields)
    ELSE self

CheckReadonly(self) ==
    IF self.readonly_fields # {} /\ ~(self.readonly_fields \subseteq self.all_fields)
    THEN [Warn(self, "readonly_not_present", self.readonly_fields \ self.all_fields)
             EXCEPT !.readonly_fields = {}]
    ELSE self

\* the ordering check; its warning has the text of the readonly check's
CheckOrdered(self) ==
    IF self.ordered_fields # <<>> /\ ~(Range(self.ordered_fields) \subseteq self.all_fields)
    THEN [Warn(self, "readonly_not_present", Range(self.ordered_fields) \ self.all_fields)
             EXCEPT !.ordered_fields = <<>>]
    ELSE self

\* the conflict rule as it would be if it reset `include` alone
CheckConflictKeepsExcluded(self) ==
    IF (self.included_fields \cup self.excluded_fields) # {}
    THEN [Warn(self, "included_excluded_common",
               Range(self.ordered_fields) \ self.all_fields)
             EXCEPT !.included_fields = {}]
    ELSE self

\* the include/exclude conflict rule
CheckConflict(self) ==
    IF (self.included_fields \cup self.excluded_fields) # {}
    THEN [Warn(self, "included_excluded_common",
               Range(self.ordered_fields) \ self.all_fields)
             EXCEPT !.excluded_fields = {}, !.included_fields = {}]
    ELSE self

\* self.excluded_fields |= (self.included_fields - self.all_fields)
ExtendExcluded(self) ==
    [self EXCEPT !.excluded_fields = @ \cup (self.included_fields \ self.all_fields)]

\* without an ordering the fields are walked in the form's own order
DefaultOrdered(self, frm) ==
    IF self.ordered_fields = <<>> THEN [self EXCEPT !.ordered_fields = frm.keyOrder]
    ELSE self

\* the ordered field list, exclusions left out
ResolveFields(self) ==
    [self EXCEPT !.fields =
        SelectSeq(self.ordered_fields, LAMBDA n : n \notin self.excluded_fields)]

\* the union of the `fields` lists of a fieldsets declaration
FieldsetFields(fs) ==
    UNION {Range(fs[i].fields) : i \in {j \in 1..Len(fs) : fs[j].has_fields}}

CheckFieldsetsKnown(self, fieldset_fields) ==
    IF ~(fieldset_fields \subseteq self.all_fields)
    THEN [Warn(self, "fieldset_invalid", fieldset_fields \ self.all_fields)
             EXCEPT !.fieldsets = <<>>]
    ELSE self

CheckFieldsetsIncluded(self, fieldset_fields) ==
    IF ~(fieldset_fields \subseteq Range(self.fields))
    THEN [Warn(self, "fieldset_excluded", fieldset_fields \ Range(self.fields))
             EXCEPT !.fieldsets = <<>>]
    ELSE self

\* the object after the four validity checks (the constructor's lines 27-42)
Validated(frm, kw) ==
    CheckOrdered(CheckReadonly(CheckIncluded(CheckExcluded(
        ReadFieldsets(MetaDefaults(ReadArguments(frm, kw), frm), kw)))))

\* the object RemoteForm(form, **kw) builds
RemoteFormInit(frm, kw) ==
    LET listed == ResolveFields(DefaultOrdered(
                      ExtendExcluded(CheckConflict(Validated(frm, kw))), frm))
        fieldset_fields == FieldsetFields(listed.fieldsets)
    IN  CheckFieldsetsIncluded(CheckFieldsetsKnown(listed, fieldset_fields),
                               fieldset_fields)

(***************************************************************************)
(* The layout tree parser: parse_layout, parse_layout_class, keys_case and *)
(* parse_flat_attrs. A layout object is a record: its class `cls`; `names` *)
(* is the `fields` attribute of a Field (field names) and `kids` the       *)
(* `fields` attribute of a container (layout objects); a Div has its       *)
(* `flat_attrs` string and `css_class`; a Field has its `attrs` mapping    *)
(* and a dict its own `type` and `attrs` keys. A mapping of attributes is  *)
(* a sequence of <<key, value>> pairs, no key twice, in the order a Python *)
(* dict holds them (the order the keys were first set in).                 *)
(***************************************************************************)

\* django.utils.text.slugify of the class names that occur
Slugify == [Layout |-> "layout", Div |-> "div", Field |-> "field",
            InlineRadios |-> "inlineradios", dict |-> "dict", str |-> "str",
            NoneType |-> "nonetype"]

IsDiv(cls) == cls = "Div"

\* crispy_forms.bootstrap.InlineRadios is a subclass of Field
IsField(cls) == cls \in {"Field", "InlineRadios"}

IsLayout(cls) == cls = "Layout"

HasFieldsAttr(cls) == IsDiv(cls) \/ IsField(cls) \/ IsLayout(cls)

\* key.replace('-', '_') on the attribute keys that occur
DashToUnderscore == [k \in {"data-x", "data_x", "class"} |->
                        IF k = "data-x" THEN "data_x" ELSE k]

\* d[k] = v on a dict: the value replaced where k is a key, else appended
DictSet(d, k, v) ==
    IF \E i \in 1..Len(d) : d[i][1] = k
    THEN [i \in 1..Len(d) |-> IF d[i][1] = k THEN <<k, v>> ELSE d[i]]
    ELSE Append(d, <<k, v>>)

RECURSIVE KeysCaseFrom(_, _, _)
\* the loop of keys_case from the i-th item of attrs on
KeysCaseFrom(new_attrs, attrs, i) ==
    IF i > Len(attrs) THEN new_attrs
    ELSE KeysCaseFrom(DictSet(new_attrs, DashToUnderscore[attrs[i][1]], attrs[i][2]),
                      attrs, i + 1)

keys_case(attrs) == KeysCaseFrom(<<>>, attrs, 1)

\* the flat attribute strings that occur: what ElementTree makes of
\* '<element %s />' % attrs, or that it raises ParseError
FlatParses(flat) == flat \in {"", " data-x=\"1\""}

parse_flat_attrs(flat) == IF flat = " data-x=\"1\"" THEN <<<<"data-x", "1">>>> ELSE <<>>

\* the layout object a bare string is (a field name inside a layout)
StrNode == [cls |-> "str", names |-> <<>>, kids |-> <<>>, flat_attrs |-> "",
            css_class |-> None, dtype |-> Absent, attrs |-> <<>>]

\* no layout: form.helper.layout is None, the form has no helper, the helper
\* is no FormHelper, or crispy_forms cannot be imported
NoLayout == [StrNode EXCEPT !.cls = "NoneType"]

\* item.fields, as parse_layout walks it
ItemFields(item) ==
    IF IsField(item.cls) THEN [i \in 1..Len(item.names) |-> StrNode] ELSE item.kids

\* a parsed node with nothing in it yet
NoNode == [type |-> Absent, name |-> Absent, attrs |-> <<>>, children |-> <<>>]

Returned(obj) == [exc |-> "none", obj |-> obj]

Raised(exc) == [exc |-> exc, obj |-> NoNode]

\* parse_layout_class: the node's own part, or the error it raises
parse_layout_class(instance) ==
    LET type == Slugify[instance.cls]
    IN  IF IsDiv(instance.cls)
        THEN IF FlatParses(instance.flat_attrs)
             THEN Returned([NoNode EXCEPT
                      !.type = type,
                      !.attrs = keys_case(DictSet(parse_flat_attrs(instance.flat_attrs),
                                                  "class", instance.css_class))])
             ELSE Raised("ParseError")
        ELSE IF IsField(instance.cls)
        THEN IF Len(instance.names) > 1 THEN Raised("NotImplementedError")
             ELSE IF Len(instance.names) = 0 THEN Raised("IndexError")
             ELSE Returned([NoNode EXCEPT !.type = type, !.name = instance.names[1],
                                          !.attrs = keys_case(instance.attrs)])
        ELSE IF instance.cls = "dict"
        THEN Returned([NoNode EXCEPT
                 !.type = IF instance.dtype # Absent THEN instance.dtype ELSE type,
                 !.attrs = keys_case(instance.attrs)])
        ELSE IF ~IsLayout(instance.cls) THEN Raised("NotImplementedError")
        ELSE Returned([NoNode EXCEPT !.type = type])

RECURSIVE parse_layout(_)
RECURSIVE ParseChildren(_, _, _)

\* the loop over item.fields from its i-th child on: `obj` with the parsed
\* children appended, or the first error
ParseChildren(obj, kids, i) ==
    IF i > Len(kids) THEN Returned(obj)
    ELSE LET child == parse_layout(kids[i])
         IN  IF child.exc # "none" THEN child
             ELSE ParseChildren([obj EXCEPT !.children = Append(@, child.obj)], kids, i + 1)

parse_layout(item) ==
    LET own == parse_layout_class(item)
    IN  IF own.exc # "none" THEN own
        ELSE IF HasFieldsAttr(item.cls) /\ own.obj.type # "field"
        THEN ParseChildren(own.obj, ItemFields(item), 1)
        ELSE own

(***************************************************************************)
(* RemoteForm.as_dict                                                      *)
(***************************************************************************)

\* the serializer classes the module django_remote_forms.fields defines, of
\* those the forms here could ask for
RemoteFieldClasses == {"RemoteCharField"}

\* 'Remote%s' % field.__class__.__name__
RemoteClassName == [CharField |-> "RemoteCharField", FancyField |-> "RemoteFancyField"]

\* a field dict with no key set
EmptyDict == [type |-> Absent, initial |-> Absent, readonly |-> Absent]

\* f with f[k] = v, k a new key or an old one
Put(f, k, v) == [n \in DOMAIN f \cup {k} |-> IF n = k THEN v ELSE f[n]]

\* django.utils.encoding.force_text of a lazy string
Force(v) == IF v = "lazy:hello" THEN "hello" ELSE v

\* utils.resolve_promise on the export: every lazy value made concrete
resolve_promise(d) ==
    [d EXCEPT !.fields = [n \in DOMAIN d.fields |->
                             [d.fields[n] EXCEPT !.initial = Force(@)]],
              !.data = [n \in DOMAIN d.data |-> Force(d.data[n])]]

\* the try/except/else around one field's serializer: the field dict, the
\* warning logged if any, the error that escapes if any
SerializeField(field) ==
    IF RemoteClassName[field.cls] \notin RemoteFieldClasses
    THEN [exc |-> "none", field_dict |-> EmptyDict,
          warnings |-> <<Warning("error_serializing", {RemoteClassName[field.cls]})>>]
    ELSE IF field.ctor = "raises"
    THEN [exc |-> "none", field_dict |-> EmptyDict,
          warnings |-> <<Warning("error_serializing", {RemoteClassName[field.cls]})>>]
    ELSE IF field.as_dict = "raises"
    THEN [exc |-> "SerializerError", field_dict |-> EmptyDict, warnings |-> <<>>]
    ELSE [exc |-> "none", field_dict |-> field.dict, warnings |-> <<>>]

\* the readonly flag as it would be if set only where the serializer set none
ForceReadonlyIfAbsent(field_dict, name, readonly) ==
    IF name \in readonly /\ field_dict.readonly = Absent
    THEN [field_dict EXCEPT !.readonly = "True"] ELSE field_dict

\* if name in self.readonly_fields: field_dict['readonly'] = True
ForceReadonly(field_dict, name, readonly) ==
    IF name \in readonly THEN [field_dict EXCEPT !.readonly = "True"] ELSE field_dict

\* if 'initial' not in the field's dict: set it to None
EnsureInitial(field_dict) ==
    IF field_dict.initial = Absent THEN [field_dict EXCEPT !.initial = None]
    ELSE field_dict

RECURSIVE SerializeFields(_, _, _, _)

\* the loop over self.fields from its i-th name on; acc holds form_dict['fields'],
\* initial_data, the warnings logged and the error that ended the loop
SerializeFields(frm, flds, readonly, acc) ==
    IF flds = <<>> \/ acc.exc # "none" THEN acc
    ELSE LET name == Head(flds)
             ser  == SerializeField(frm.field[name])
             field_dict == EnsureInitial(ForceReadonly(ser.field_dict, name, readonly))
         IN  IF ser.exc # "none" THEN [acc EXCEPT !.exc = ser.exc]
             ELSE SerializeFields(frm, Tail(flds), readonly,
                      [acc EXCEPT !.fields = Put(@, name, field_dict),
                                  !.initial_data = Put(@, name, field_dict.initial),
                                  !.warnings = @ \o ser.warnings])

\* the layout step: form_dict['layout'] when the helper's layout is a Layout
LayoutStep(frm) ==
    IF IsLayout(frm.layout.cls) THEN parse_layout(frm.layout) ELSE Returned(NoNode)

\* what as_dict() comes to: the export it returns or the error it raises, and
\* the warnings it logs. Of the export's keys, title, non_field_errors,
\* label_suffix, prefix and errors are copies of form attributes and are left
\* out; `layout` is a key of the export only where has_layout holds.
as_dict(frm, flds, readonly) ==
    LET layout == LayoutStep(frm)
        done   == SerializeFields(frm, flds, readonly,
                      [fields |-> EmptyMap, initial_data |-> EmptyMap,
                       warnings |-> <<>>, exc |-> "none"])
    IN  IF layout.exc # "none"
        THEN [exc |-> layout.exc, warnings |-> <<>>, form_dict |-> <<>>]
        ELSE IF done.exc # "none"
        THEN [exc |-> done.exc, warnings |-> done.warnings, form_dict |-> <<>>]
        ELSE [exc |-> "none", warnings |-> done.warnings,
              form_dict |-> <<resolve_promise(
                  [is_bound       |-> frm.is_bound,
                   fields         |-> done.fields,
                   fieldsets      |-> IF frm.has_fieldsets THEN frm.fieldsets ELSE <<>>,
                   ordered_fields |-> flds,
                   has_layout     |-> IsLayout(frm.layout.cls),
                   layout         |-> layout.obj,
                   data           |-> IF DOMAIN frm.data # {} THEN frm.data
                                      ELSE done.initial_data])>>]

(***************************************************************************)
(* The forms and the keyword arguments the operations are run on           *)
(***************************************************************************)

\* what a field's serializer returns from as_dict()
FieldDicts ==
    {[type |-> "CharField", initial |-> Absent,       readonly |-> Absent],
     [type |-> "CharField", initial |-> "hello",      readonly |-> Absent],
     [type |-> "CharField", initial |-> "lazy:hello", readonly |-> Absent],
     [type |-> "CharField", initial |-> "hello",      readonly |-> "False"]}

PlainField == [cls |-> "CharField", ctor |-> "ok", as_dict |-> "ok",
               dict |-> [type |-> "CharField", initial |-> "hello", readonly |-> Absent]]

\* a field by its class and by what its serializer does with the field and
\* form.initial.get(name): returns a dict, is
\* missing from the fields module, raises when built, raises in as_dict()
FieldRecords ==
    {[PlainField EXCEPT !.dict = d] : d \in FieldDicts}
    \cup {[PlainField EXCEPT !.cls = "FancyField"],
          [PlainField EXCEPT !.ctor = "raises"],
          [PlainField EXCEPT !.as_dict = "raises"]}

PlainForm ==
    [keyOrder      |-> <<"name", "age">>,
     isModelForm   |-> FALSE,
     meta_fields   |-> {},
     meta_exclude  |-> {},
     has_fieldsets |-> FALSE,
     fieldsets     |-> <<>>,
     is_bound      |-> FALSE,
     data          |-> EmptyMap,
     field         |-> [n \in {"name", "age"} |-> PlainField],
     layout        |-> NoLayout]

FieldNode(names) == [StrNode EXCEPT !.cls = "Field", !.names = names,
                                    !.attrs = <<<<"data-x", "1">>>>]

\* a dict whose attrs hold two keys that keys_case makes one
DictNode == [StrNode EXCEPT !.cls = "dict", !.dtype = "html",
                            !.attrs = <<<<"data-x", "1">>, <<"data_x", "2">>>>]

LayoutNode(kids) == [StrNode EXCEPT !.cls = "Layout", !.kids = kids]

DivNode(kids, flat) == [StrNode EXCEPT !.cls = "Div", !.kids = kids,
                                       !.flat_attrs = flat, !.css_class = "row"]

LayoutLeaves ==
    {FieldNode(<<"name">>), FieldNode(<<"name", "age">>), FieldNode(<<>>),
     [FieldNode(<<"name">>) EXCEPT !.cls = "InlineRadios"], DictNode, StrNode}

RECURSIVE LayoutObjects(_, _)
\* the layout objects nested at most `depth` deep, `width` children a container
LayoutObjects(depth, width) ==
    IF depth = 0 THEN LayoutLeaves
    ELSE LET below == SeqsUpTo(LayoutObjects(depth - 1, width), width)
         IN  LayoutLeaves
             \cup {LayoutNode(kids) : kids \in below}
             \cup {DivNode(kids, flat) : kids \in below,
                                         flat \in {" data-x=\"1\"", " data-x"}}

\* the (is_bound, data) pairs of an unbound form, of a form bound to an empty
\* submission and of a form bound to a submitted value
Submissions ==
    {<<FALSE, EmptyMap>>, <<TRUE, EmptyMap>>, <<TRUE, [n \in {"name"} |-> "typed"]>>}

MainFieldset(names) == [name |-> "main", has_fields |-> TRUE, fields |-> names]

FieldsetEntries ==
    {[name |-> "main", has_fields |-> FALSE, fields |-> <<>>],
     MainFieldset(<<"name">>), MainFieldset(<<"name", "ghost">>)}

\* forms for the constructor: either field order, plain forms and ModelForms,
\* and a form class that declares a `fieldsets` attribute of its own
CtorForms ==
    {PlainForm,
     [PlainForm EXCEPT !.keyOrder = <<"age", "name">>],
     [PlainForm EXCEPT !.isModelForm = TRUE, !.meta_fields = {"name", "age"}],
     [PlainForm EXCEPT !.isModelForm = TRUE, !.meta_exclude = {"age"}],
     [PlainForm EXCEPT !.has_fieldsets = TRUE,
                       !.fieldsets = <<MainFieldset(<<"age">>)>>]}

CtorKwargs ==
    [exclude : SUBSET Names, include : SUBSET Names,
     readonly : SUBSET {"name", "ghost"},
     ordering : SeqsUpTo(Names, MaxOrdering),
     fieldsets : SeqsUpTo(FieldsetEntries, MaxFieldsets)]

\* forms for the export: every serializer behaviour of either field, every
\* submission, and no layout, a layout that parses and one that does not
ExportForms ==
    {[PlainForm EXCEPT !.field = f, !.is_bound = sub[1], !.data = sub[2], !.layout = l] :
        f \in [{"name", "age"} -> FieldRecords], sub \in Submissions,
        l \in {NoLayout, LayoutNode(<<FieldNode(<<"name">>)>>), LayoutNode(<<StrNode>>)}}

ExportKwargs ==
    [exclude : {{}}, include : {{}}, readonly : SUBSET Names,
     ordering : SeqsUpTo(Names, MaxOrdering), fieldsets : {<<>>}]

\* forms for the layout parser: every layout object, over a form whose fields
\* serialize and over one with a serializer that raises
LayoutForms(depth, width) ==
    {[PlainForm EXCEPT !.layout = l, !.field = f] :
        l \in LayoutObjects(depth, width),
        f \in {PlainForm.field, [PlainForm.field EXCEPT !["age"].as_dict = "raises"]}}

LayoutKwargs ==
    [exclude : {{}}, include : {{}}, readonly : {{}},
     ordering : {<<>>, <<"age", "name">>}, fieldsets : {<<>>}]

(***************************************************************************)
(* The state machine: a form, RemoteForm(form, **kwargs), then as_dict()   *)
(***************************************************************************)

InitWith(forms) ==
    /\ form \in forms
    /\ kwargs = [exclude |-> {}, include |-> {}, readonly |-> {},
                 ordering |-> <<>>, fieldsets |-> <<>>]
    /\ all_fields = {}
    /\ excluded_fields = {}
    /\ included_fields = {}
    /\ readonly_fields = {}
    /\ ordered_fields = <<>>
    /\ fields = <<>>
    /\ fieldsets = <<>>
    /\ log = <<>>
    /\ pc = "new"
    /\ form_dict = <<>>
    /\ raised = "none"

\* RemoteForm(form, **kw), kw one of `choices`
ConstructWith(choices) ==
    /\ pc = "new"
    /\ \E kw \in choices :
          LET self == RemoteFormInit(form, kw)
          IN  /\ kwargs' = kw
              /\ all_fields' = self.all_fields
              /\ excluded_fields' = self.excluded_fields
              /\ included_fields' = self.included_fields
              /\ readonly_fields' = self.readonly_fields
              /\ ordered_fields' = self.ordered_fields
              /\ fields' = self.fields
              /\ fieldsets' = self.fieldsets
              /\ log' = log \o self.log
    /\ pc' = "constructed"
    /\ UNCHANGED <<form, form_dict, raised>>

\* remote_form.as_dict()
AsDict ==
    /\ pc = "constructed"
    /\ LET out == as_dict(form, fields, readonly_fields)
       IN  /\ log' = log \o out.warnings
           /\ form_dict' = out.form_dict
           /\ raised' = out.exc
           /\ pc' = IF out.exc = "none" THEN "returned" ELSE "raised"
    /\ UNCHANGED <<form, kwargs, all_fields, excluded_fields, included_fields,
                   readonly_fields, ordered_fields, fields, fieldsets>>

Construct == ConstructWith(CtorKwargs)

Init == InitWith(CtorForms)

Next == Construct \/ AsDict

Spec == Init /\ [][Next]_vars

ConstructForExport == ConstructWith(ExportKwargs)

InitExport == InitWith(ExportForms)

NextExport == ConstructForExport \/ AsDict

SpecExport == InitExport /\ [][NextExport]_vars

ConstructForLayout == ConstructWith(LayoutKwargs)

InitLayout == InitWith(LayoutForms(MaxDepth, MaxKids))

NextLayout == ConstructForLayout \/ AsDict

SpecLayout == InitLayout /\ [][NextLayout]_vars

(***************************************************************************)
(* Properties                                                              *)
(***************************************************************************)

Constructed == pc # "new"

\* the export as_dict() returned
Export == form_dict[1]

\* the order the constructor is to walk: a valid, non-empty `ordering`, else
\* the form's declared order
ChosenOrder ==
    IF kwargs.ordering # <<>> /\ Range(kwargs.ordering) \subseteq Range(form.keyOrder)
    THEN kwargs.ordering ELSE form.keyOrder

Without(order, names) == SelectSeq(order, LAMBDA n : n \notin names)

NoDuplicates(s) == \A i, j \in 1..Len(s) : s[i] = s[j] => i = j

Outside(names) == names \ Range(form.keyOrder)

\* C1: on a plain (non-model) form, a non-empty `exclude` of form fields with
\* no `include` gives the chosen order with exactly the excluded names
\* removed, and the export's `fields` has no key for an excluded name.
C1_ExcludeRemoved ==
    (/\ Constructed
     /\ ~form.isModelForm
     /\ kwargs.exclude # {}
     /\ kwargs.exclude \subseteq Range(form.keyOrder)
     /\ kwargs.include = {})
    => /\ fields = Without(ChosenOrder, kwargs.exclude)
       /\ pc = "returned" => DOMAIN Export.fields \cap kwargs.exclude = {}

\* C2: the export's `fieldsets` is empty when the passed declaration names a
\* field outside the form or outside the resolved list, and is the passed
\* declaration unchanged otherwise.
C2_FieldsetsAllOrNothing ==
    pc = "returned" =>
        LET named == FieldsetFields(kwargs.fieldsets)
        IN  IF named \subseteq Range(form.keyOrder) /\ named \subseteq Range(fields)
            THEN Export.fieldsets = kwargs.fieldsets
            ELSE Export.fieldsets = <<>>

\* C3: the export's `data` is the raw submitted data when the form is bound,
\* also when that mapping is empty, and maps each resolved name to the
\* `initial` of its field dict when the form is unbound.
C3_DataPrecedence ==
    pc = "returned" =>
        IF form.is_bound THEN Export.data = form.data
        ELSE /\ DOMAIN Export.data = Range(fields)
             /\ \A n \in Range(fields) : Export.data[n] = Export.fields[n].initial

\* C4: the resolved list has no duplicates, holds only form fields, and is in
\* the order of a valid non-empty `ordering`, else in the declared order.
C4_ResolvedOrdering ==
    Constructed =>
        /\ NoDuplicates(fields)
        /\ Range(fields) \subseteq Range(form.keyOrder)
        /\ fields = Without(ChosenOrder, excluded_fields)
        /\ pc = "returned" => Export.ordered_fields = fields

BothGiven ==
    /\ kwargs.include # {} /\ kwargs.include \subseteq Range(form.keyOrder)
    /\ kwargs.exclude # {} /\ kwargs.exclude \subseteq Range(form.keyOrder)

ConflictLogged ==
    Cardinality({i \in 1..Len(log) : log[i].msg = "included_excluded_common"}) = 1

\* C5 as stated: with `include` and `exclude` both non-empty and valid, both
\* are reset, one warning is logged, and the resolved list is every form
\* field in the chosen order.
C5_ConflictResetAllFields ==
    (Constructed /\ BothGiven)
    => /\ included_fields = {} /\ excluded_fields = {}
       /\ ConflictLogged
       /\ Range(fields) = Range(form.keyOrder)
       /\ fields = ChosenOrder

\* C5 amended: with `include` and `exclude` both non-empty and valid, both
\* are reset, one warning is logged, and the resolved list is the whole
\* chosen order (the valid non-empty `ordering`, else the declared order)
\* with nothing removed.
C5_ConflictReset ==
    (Constructed /\ BothGiven)
    => /\ included_fields = {} /\ excluded_fields = {}
       /\ ConflictLogged
       /\ fields = ChosenOrder

C5_Witness ==
    /\ Constructed
    /\ kwargs.include = {"name"} /\ kwargs.exclude = {"age"}
    /\ kwargs.ordering = <<>>
    /\ fields = <<"name", "age">>

\* C6: construction never raises, whatever the directives; afterwards each of
\* exclude, include and readonly that named a non-field is empty and all three
\* are subsets of the form's fields; an ordering that named a non-field was
\* emptied, so the declared order is walked.
C6_DirectivesSubset ==
    /\ pc = "new" => ENABLED Construct
    /\ Constructed =>
        /\ Outside(kwargs.exclude) # {} => excluded_fields = {}
        /\ Outside(kwargs.include) # {} => included_fields = {}
        /\ Outside(kwargs.readonly) # {} => readonly_fields = {}
        /\ Outside(Range(kwargs.ordering)) # {} =>
              /\ Validated(form, kwargs).ordered_fields = <<>>
              /\ ordered_fields = form.keyOrder
        /\ excluded_fields \subseteq all_fields
        /\ included_fields \subseteq all_fields
        /\ readonly_fields \subseteq all_fields
        /\ Outside(kwargs.readonly) = {} => readonly_fields = kwargs.readonly

C6_Witness ==
    /\ Constructed
    /\ kwargs.exclude = {"age", "ghost"}
    /\ kwargs.include = {"ghost"}
    /\ kwargs.readonly = {"name", "ghost"}
    /\ kwargs.ordering = <<"ghost", "age">>
    /\ readonly_fields = {}
    /\ fields = form.keyOrder

\* a field whose serializer is missing or raises, when built or in as_dict()
SerializationFails(field) ==
    \/ RemoteClassName[field.cls] \notin RemoteFieldClasses
    \/ field.ctor = "raises"
    \/ field.as_dict = "raises"

\* C7: a field whose serializer is missing or raises never makes as_dict()
\* raise: its entry is the empty dict plus initial None (plus readonly when
\* it is readonly), and every other field's entry is what its serializer gave.
C7_FieldFailureAbsorbed ==
    (pc \in {"returned", "raised"} /\ LayoutStep(form).exc = "none")
    => /\ pc = "returned"
       /\ \A n \in Range(fields) :
            Export.fields[n] =
                IF SerializationFails(form.field[n])
                THEN [type |-> Absent, initial |-> None,
                      readonly |-> IF n \in readonly_fields THEN "True" ELSE Absent]
                ELSE LET given == form.field[n].dict
                     IN  [given EXCEPT
                            !.initial = IF @ = Absent THEN None ELSE Force(@),
                            !.readonly = IF n \in readonly_fields THEN "True" ELSE @]

\* C8: every name of a valid `readonly` directive that is in the resolved list
\* has readonly true in its exported entry, whatever its serializer returned
\* and also when its serialization failed.
C8_ReadonlyForced ==
    (pc = "returned" /\ kwargs.readonly \subseteq all_fields)
    => \A n \in kwargs.readonly \cap Range(fields) : Export.fields[n].readonly = "True"

C8_Witness ==
    /\ pc = "returned"
    /\ kwargs.readonly = {"name", "age"}
    /\ form.field["name"].dict.readonly = "False" /\ ~SerializationFails(form.field["name"])
    /\ form.field["age"].ctor = "raises"
    /\ Export.fields["name"].readonly = "True"
    /\ Export.fields["age"].readonly = "True"

RECURSIVE HasBadNode(_)
\* a node of an unrecognized variant, or a field reference that does not wrap
\* exactly one name, at the root or below containers
HasBadNode(item) ==
    \/ ~(IsLayout(item.cls) \/ IsDiv(item.cls) \/ IsField(item.cls) \/ item.cls = "dict")
    \/ IsField(item.cls) /\ Len(item.names) # 1
    \/ /\ IsLayout(item.cls) \/ IsDiv(item.cls)
       /\ \E i \in 1..Len(item.kids) : HasBadNode(item.kids[i])

RECURSIVE ChildPerChild(_, _)
\* the parsed node has one child per child of the container, in order
ChildPerChild(item, obj) ==
    IF IsLayout(item.cls) \/ IsDiv(item.cls)
    THEN /\ Len(obj.children) = Len(item.kids)
         /\ \A i \in 1..Len(item.kids) :
              /\ item.kids[i].cls # "dict" => obj.children[i].type = Slugify[item.kids[i].cls]
              /\ ChildPerChild(item.kids[i], obj.children[i])
    ELSE obj.children = <<>>

\* C9: a layout tree with a bad node makes as_dict() raise and return nothing;
\* a tree without one gives an export whose layout has one parsed child per
\* container child, in order.
C9_LayoutAllOrNothing ==
    (pc \in {"returned", "raised"} /\ form.layout # NoLayout)
    => IF HasBadNode(form.layout) THEN pc = "raised" /\ form_dict = <<>>
       ELSE /\ pc = "returned"
            /\ Export.has_layout
            /\ ChildPerChild(form.layout, Export.layout)

\* the directives as the validity checks meet them and as they leave them
GivenExcluded ==
    IF form.isModelForm /\ kwargs.exclude = {} THEN form.meta_exclude ELSE kwargs.exclude

GivenIncluded ==
    IF form.isModelForm /\ kwargs.include = {} THEN form.meta_fields ELSE kwargs.include

\* no block of the constructor reset anything
NothingInvalidated ==
    /\ excluded_fields = GivenExcluded
    /\ included_fields = GivenIncluded
    /\ readonly_fields = kwargs.readonly
    /\ fields = ChosenOrder
    /\ kwargs.ordering \in {<<>>, ordered_fields}
    /\ fieldsets = kwargs.fieldsets

\* which of the seven blocks reset something on these arguments
InvalidatingBlocks ==
    {b \in {"exclude", "include", "readonly", "ordering", "conflict",
            "fieldset_unknown", "fieldset_excluded"} :
        \/ b = "exclude" /\ Outside(GivenExcluded) # {}
        \/ b = "include" /\ Outside(GivenIncluded) # {}
        \/ b = "readonly" /\ Outside(kwargs.readonly) # {}
        \/ b = "ordering" /\ Outside(Range(kwargs.ordering)) # {}
        \/ b = "conflict" /\ \/ GivenExcluded # {} /\ Outside(GivenExcluded) = {}
                             \/ GivenIncluded # {} /\ Outside(GivenIncluded) = {}
        \/ b = "fieldset_unknown" /\ Outside(FieldsetFields(kwargs.fieldsets)) # {}
        \/ b = "fieldset_excluded"
              /\ ~(FieldsetFields(kwargs.fieldsets) \subseteq Range(fields))}

\* C10: each invalidation of the constructor logs exactly one warning, whose
\* name set is the non-empty set of offending names, and a construction that
\* invalidates nothing logs nothing.
C10_WarningsNameOffenders ==
    pc = "constructed" =>
        /\ Len(log) = Cardinality(InvalidatingBlocks)
        /\ \A i \in 1..Len(log) : log[i].names # {}
        /\ NothingInvalidated <=> log = <<>>

====
